---- MODULE Spec2Model ----
(***************************************************************************)
(* Model of src/app.py: the ISS tracker dashboard.                         *)
(*                                                                         *)
(*   - fetch_tle (lines 27-38) behind st.cache_data(ttl=3600);             *)
(*   - calculate_passes (lines 40-65), the grouping of the propagator's    *)
(*     flat (time, event-code) sequence into pass records;                 *)
(*   - the top-to-bottom script of one render (lines 70-129).              *)
(*                                                                         *)
(* Text is a sequence of characters over {"x", "r", "n"}: "x" is any       *)
(* non-whitespace character, "r" is CR and "n" is LF.  Python's None is    *)
(* the value None below, which is no text over that alphabet.  Instants    *)
(* are whole seconds.                                                      *)
(***************************************************************************)
EXTENDS Integers, Sequences, FiniteSets, TLC

\* ------------------------------------------------------------------ bounds
MaxEvents == 6
MaxTime == 1
MaxBody == 7
MaxClock == 2

\* --------------------------------------------------------------- constants
TTL == 3600
STRIDE == 3
RISE == 0
CULMINATE == 1
SET == 2

VARIABLES
    pc,              \* position of the running script
    now,             \* wall clock, seconds
    cache,           \* the st.cache_data entry of fetch_tle
    tle,             \* (iss_name, iss_l1, iss_l2) of this render
    http,            \* outcome of the HTTP GET of this render, "none" if no GET
    error_reported,  \* st.error of line 37 ran in this render
    ran,             \* pipeline steps executed in this render
    last_fetch,      \* history: the last fetch_tle call whose body returned
    times,           \* find_events: the instants
    events,          \* find_events: the event codes
    pass_df,         \* result of calculate_passes
    raised,          \* exception that escaped calculate_passes, "none" if none
    shown            \* what the pass predictor section displayed

vars == <<pc, now, cache, tle, http, error_reported, ran, last_fetch,
          times, events, pass_df, raised, shown>>

fetchVars == <<now, cache, tle, http, error_reported, ran, last_fetch>>
passVars == <<times, events, pass_df, raised, shown>>

\* ------------------------------------------------------------------- text
None == <<"None">>
NullTriple == <<None, None, None>>
Unset == <<>>

Chars == {"x", "r", "n"}
Whitespace == {"r", "n"}

RECURSIVE TextsUpTo(_)
TextsUpTo(n) ==
    IF n = 0 THEN {<<>>}
    ELSE LET shorter == TextsUpTo(n - 1)
         IN  shorter \cup {Append(s, c) : s \in {t \in shorter : Len(t) = n - 1}, c \in Chars}

Bodies == TextsUpTo(MaxBody)

\* str.strip(): leading and trailing whitespace removed
RECURSIVE LStrip(_)
LStrip(s) ==
    IF s # <<>> /\ Head(s) \in Whitespace THEN LStrip(Tail(s)) ELSE s

RECURSIVE RStrip(_)
RStrip(s) ==
    IF s # <<>> /\ s[Len(s)] \in Whitespace THEN RStrip(SubSeq(s, 1, Len(s) - 1)) ELSE s

Strip(s) == RStrip(LStrip(s))

\* str.split('\r\n'): the pieces between occurrences of CR LF, at least one piece
RECURSIVE SplitFrom(_, _, _)
SplitFrom(s, k, cur) ==
    IF k > Len(s) THEN <<cur>>
    ELSE IF k < Len(s) /\ s[k] = "r" /\ s[k + 1] = "n"
         THEN <<cur>> \o SplitFrom(s, k + 2, <<>>)
         ELSE SplitFrom(s, k + 1, Append(cur, s[k]))

SplitCRLF(s) == SplitFrom(s, 1, <<>>)


\* -------------------------------------------------------------- fetch_tle
\* outcomes of requests.get(tle_url, timeout=10) followed by raise_for_status()
RequestExceptions == {"ConnectionError", "Timeout", "HTTPError"}
Outcomes == RequestExceptions \cup {"ok"}

Returned(v, rep) == [kind |-> "return", value |-> v, exc |-> "none", reported |-> rep]
Raised(e) == [kind |-> "raise", value |-> Unset, exc |-> e, reported |-> FALSE]

\* the try block, lines 32-35
TryBlock(outcome, body) ==
    IF outcome # "ok" THEN Raised(outcome)
    ELSE LET tle_data == SplitCRLF(Strip(body))
         IN  IF Len(tle_data) < 3 THEN Raised("IndexError")
             ELSE Returned(<<tle_data[1], tle_data[2], tle_data[3]>>, FALSE)

CaughtOnlyTransport(exc) == exc \in {"ConnectionError", "Timeout"}

\* except requests.exceptions.RequestException, line 36
Caught(exc) == exc \in RequestExceptions

\* the body of fetch_tle, lines 28-38
fetch_tle(outcome, body) ==
    LET r == TryBlock(outcome, body)
    IN  IF r.kind = "raise" /\ Caught(r.exc) THEN Returned(NullTriple, TRUE) ELSE r

\* ------------------------------------------------- st.cache_data(ttl=3600)
CacheEmpty == [full |-> FALSE, value |-> Unset, at |-> 0]

CacheFresh(c, t) == c.full /\ t - c.at < TTL

CacheStoreSkipNull(c, v, t) ==
    IF v = NullTriple THEN c ELSE [full |-> TRUE, value |-> v, at |-> t]

CacheStore(c, v, t) == [full |-> TRUE, value |-> v, at |-> t]

\* ------------------------------------------------------- calculate_passes
Item(seq, i) == seq[i + 1]

RECURSIVE RangeSeq(_, _)
RangeSeq(i, stop) == IF i >= stop THEN <<>> ELSE <<i>> \o RangeSeq(i + STRIDE, stop)

LoopRangeToEnd(n) == RangeSeq(0, n)

\* range(0, len(events) - 2, 3), line 49
LoopRange(n) == RangeSeq(0, n - 2)

\* the subscripts of line 50, evaluated left to right with short-circuit `and`
IndexRaises(ev, i) ==
    \/ i >= Len(ev)
    \/ /\ Item(ev, i) = RISE
       /\ \/ i + 1 >= Len(ev)
          \/ /\ Item(ev, i + 1) = CULMINATE
             /\ i + 2 >= Len(ev)

IsPassRiseOnly(ev, i) == Item(ev, i) = RISE

\* events[i]==0 and events[i+1]==1 and events[i+2]==2, line 50
IsPass(ev, i) ==
    /\ Item(ev, i) = RISE
    /\ Item(ev, i + 1) = CULMINATE
    /\ Item(ev, i + 2) = SET

\* utc_strftime('%Y-%m-%d %H:%M'): the instant to the nearest minute
FormatMinute(t) == (t + 30) \div 60

\* f"{duration:.1f}" of a duration of d seconds, in tenths of a minute (d / 6
\* rounded to nearest, ties to even)
FormatDuration(d) ==
    LET q == d \div 6
        r == d % 6
    IN  IF r < 3 THEN q
        ELSE IF r > 3 THEN q + 1
        ELSE IF q % 2 = 0 THEN q ELSE q + 1

\* (iss - observer_location).at(t).altaz(): the propagator's lookup, a function
\* of the instant for a fixed satellite and observer
AltAz(t) == [alt |-> <<"alt", t>>, az |-> <<"az", t>>]

PassRecordFromRise(ts, i) ==
    [rise |-> FormatMinute(Item(ts, i)),
     max_altitude |-> AltAz(Item(ts, i)).alt,
     direction |-> AltAz(Item(ts, i)).az,
     duration |-> FormatDuration(Item(ts, i + 2) - Item(ts, i))]

\* lines 53-64
PassRecord(ts, i) ==
    [rise |-> FormatMinute(Item(ts, i)),
     max_altitude |-> AltAz(Item(ts, i + 1)).alt,
     direction |-> AltAz(Item(ts, i + 1)).az,
     duration |-> FormatDuration(Item(ts, i + 2) - Item(ts, i))]

PassPrepend(pass_data, rec) == <<rec>> \o pass_data

\* pass_data.append, line 59
PassAppend(pass_data, rec) == Append(pass_data, rec)

\* the for loop, lines 49-64
RECURSIVE PassLoop(_, _, _, _, _)
PassLoop(ts, ev, idx, k, pass_data) ==
    IF k > Len(idx) THEN [data |-> pass_data, exc |-> "none"]
    ELSE LET i == idx[k]
         IN  IF IndexRaises(ev, i) THEN [data |-> pass_data, exc |-> "IndexError"]
             ELSE IF ~IsPass(ev, i) THEN PassLoop(ts, ev, idx, k + 1, pass_data)
             ELSE PassLoop(ts, ev, idx, k + 1, PassAppend(pass_data, PassRecord(ts, i)))

\* lines 46-65, given what find_events returned
calculate_passes(ts, ev) == PassLoop(ts, ev, LoopRange(Len(ev)), 1, <<>>)

ShowAlwaysTable(df) == "dataframe"

\* if not pass_df.empty, lines 126-129
ShowPasses(df) == IF df # <<>> THEN "dataframe" ELSE "info"

\* what find_events can return: instants in non-decreasing order, one code each
Instants == {40 * k : k \in 0..MaxTime}
Codes == {RISE, CULMINATE, SET}

\* instants never decrease along the answer
SortedTimes(n) ==
    {ts \in [1..n -> Instants] : \A k \in 1..(n - 1) : ts[k] <= ts[k + 1]}

\* ------------------------------------------------------ the script, a render
Truthy(v) == v # None /\ v # <<>>

AnyTruthy(t) == \E i \in 1..3 : Truthy(t[i])

\* all([iss_name, iss_l1, iss_l2]), line 74
AllTruthy(t) == \A i \in 1..3 : Truthy(t[i])

NoFetch == [valid |-> FALSE, value |-> Unset, at |-> 0]

Init ==
    /\ pc = "idle"
    /\ now = 0
    /\ cache = CacheEmpty
    /\ tle = Unset
    /\ http = "none"
    /\ error_reported = FALSE
    /\ ran = {}
    /\ last_fetch = NoFetch
    /\ times = <<>>
    /\ events = <<>>
    /\ pass_df = <<>>
    /\ raised = "none"
    /\ shown = "none"

\* time passes
Tick ==
    /\ now + 1800 <= MaxClock * 1800
    /\ now' = now + 1800
    /\ UNCHANGED <<pc, cache, tle, http, error_reported, ran, last_fetch>>
    /\ UNCHANGED passVars

\* a user interaction or a reload runs the script from the top
Rerun ==
    /\ pc \in {"idle", "done", "stopped", "crashed"}
    /\ pc' = "fetch"
    /\ tle' = Unset
    /\ http' = "none"
    /\ error_reported' = FALSE
    /\ ran' = {}
    /\ times' = <<>>
    /\ events' = <<>>
    /\ pass_df' = <<>>
    /\ raised' = "none"
    /\ shown' = "none"
    /\ UNCHANGED <<now, cache, last_fetch>>

\* line 73 when the cache holds an entry younger than the ttl
FetchHit ==
    /\ pc = "fetch"
    /\ CacheFresh(cache, now)
    /\ tle' = cache.value
    /\ pc' = "check"
    /\ UNCHANGED <<now, cache, http, error_reported, ran, last_fetch>>
    /\ UNCHANGED passVars

\* what the call of line 73 leaves behind when the body ran with result r
FetchDone(outcome, r) ==
    /\ http' = outcome
    /\ error_reported' = r.reported
    /\ tle' = (IF r.kind = "return" THEN r.value ELSE tle)
    /\ cache' = (IF r.kind = "return" THEN CacheStore(cache, r.value, now) ELSE CacheEmpty)
    /\ last_fetch' = (IF r.kind = "return"
                      THEN [valid |-> TRUE, value |-> r.value, at |-> now]
                      ELSE last_fetch)
    /\ pc' = (IF r.kind = "return" THEN "check" ELSE "crashed")
    /\ raised' = r.exc

\* line 73 when it does not: the body runs and its return value is stored
FetchMiss ==
    /\ pc = "fetch"
    /\ ~CacheFresh(cache, now)
    /\ \/ \E outcome \in RequestExceptions : FetchDone(outcome, fetch_tle(outcome, <<>>))
       \/ \E body \in Bodies : FetchDone("ok", fetch_tle("ok", body))
    /\ UNCHANGED <<now, ran, times, events, pass_df, shown>>

\* lines 74-75
StopRender ==
    /\ pc = "check"
    /\ ~AllTruthy(tle)
    /\ pc' = "stopped"
    /\ UNCHANGED fetchVars
    /\ UNCHANGED passVars

\* lines 74-78
BuildModel ==
    /\ pc = "check"
    /\ AllTruthy(tle)
    /\ ran' = ran \cup {"model"}
    /\ pc' = "live"
    /\ UNCHANGED <<now, cache, tle, http, error_reported, last_fetch>>
    /\ UNCHANGED passVars

\* lines 81-98
LiveLocation ==
    /\ pc = "live"
    /\ ran' = ran \cup {"live"}
    /\ pc' = "find"
    /\ UNCHANGED <<now, cache, tle, http, error_reported, last_fetch>>
    /\ UNCHANGED passVars

\* lines 113-124 and 42-46: the propagator answers for the selected city; here
\* with at most one group of events, SpecPasses covers the longer answers
FindEvents ==
    /\ pc = "find"
    /\ \E n \in 0..STRIDE :
        /\ times' \in SortedTimes(n)
        /\ events' \in [1..n -> Codes]
    /\ pc' = "predict"
    /\ UNCHANGED fetchVars
    /\ UNCHANGED <<pass_df, raised, shown>>

\* line 124 and lines 48-65; an exception that escapes ends the render
CalculatePasses ==
    /\ pc = "predict"
    /\ LET r == calculate_passes(times, events)
       IN  /\ raised' = r.exc
           /\ pass_df' = (IF r.exc = "none" THEN r.data ELSE pass_df)
           /\ ran' = (IF r.exc = "none" THEN ran \cup {"passes"} ELSE ran)
           /\ pc' = (IF r.exc = "none" THEN "show" ELSE "crashed")
    /\ UNCHANGED <<now, cache, tle, http, error_reported, last_fetch>>
    /\ UNCHANGED <<times, events, shown>>

\* lines 126-129
Display ==
    /\ pc = "show"
    /\ shown' = ShowPasses(pass_df)
    /\ pc' = "done"
    /\ UNCHANGED fetchVars
    /\ UNCHANGED <<times, events, pass_df, raised>>

Next ==
    \/ Tick
    \/ Rerun
    \/ FetchHit
    \/ FetchMiss
    \/ StopRender
    \/ BuildModel
    \/ LiveLocation
    \/ FindEvents
    \/ CalculatePasses
    \/ Display

Spec == Init /\ [][Next]_vars

\* The pass predictor section on every answer of the propagator, after a
\* successful fetch
FetchedTriple == <<<<"x">>, <<"x">>, <<"x">>>>

InitPasses ==
    /\ pc = "predict"
    /\ now = 0
    /\ cache = CacheStore(CacheEmpty, FetchedTriple, 0)
    /\ tle = FetchedTriple
    /\ http = "ok"
    /\ error_reported = FALSE
    /\ ran = {"model", "live"}
    /\ last_fetch = [valid |-> TRUE, value |-> FetchedTriple, at |-> 0]
    /\ \E n \in 0..MaxEvents :
        /\ times \in SortedTimes(n)
        /\ events \in [1..n -> Codes]
    /\ pass_df = <<>>
    /\ raised = "none"
    /\ shown = "none"

NextPasses ==
    \/ CalculatePasses
    \/ Display

SpecPasses == InitPasses /\ [][NextPasses]_vars


\* ------------------------------------------------------------- properties
\* what the specification expects of one group (rise, culminate, set)
ExpectedRecord(r, c, s) ==
    [rise |-> FormatMinute(r),
     max_altitude |-> AltAz(c).alt,
     direction |-> AltAz(c).az,
     duration |-> FormatDuration(s - r)]

NumGroups == Len(events) \div 3

GroupCodes(j) == <<events[3 * j + 1], events[3 * j + 2], events[3 * j + 3]>>

GroupRecord(j) == ExpectedRecord(times[3 * j + 1], times[3 * j + 2], times[3 * j + 3])

ValidGroups == {j \in 0..(NumGroups - 1) : GroupCodes(j) = <<0, 1, 2>>}

Rank(j) == 1 + Cardinality({k \in ValidGroups : k < j})

RECURSIVE GroupRecords(_)
GroupRecords(j) ==
    IF j >= NumGroups THEN <<>>
    ELSE (IF j \in ValidGroups THEN <<GroupRecord(j)>> ELSE <<>>) \o GroupRecords(j + 1)

WellFormed ==
    /\ Len(events) % 3 = 0
    /\ \A k \in 1..Len(events) : events[k] = (k - 1) % 3

\* each event is the successor of the one before it in rise, culminate, set, rise
Cyclic == \A k \in 1..(Len(events) - 1) : events[k + 1] = (events[k] + 1) % 3

\* the starts of the complete passes of the sequence, wherever they lie
CompletePasses ==
    {k \in 1..(Len(events) - 2) :
        <<events[k], events[k + 1], events[k + 2]>> = <<0, 1, 2>>}

PassesCalled == pc \in {"show", "done"} \/ (pc = "crashed" /\ "live" \in ran)

\* C1: on a sequence of 3k events whose codes are 0,1,2 repeated, calculate_passes
\* returns exactly k records, the j-th built from times[3j], times[3j+1], times[3j+2]
C1_WellFormedGrouping ==
    (PassesCalled /\ WellFormed) =>
        /\ raised = "none"
        /\ Len(pass_df) = NumGroups
        /\ \A j \in 0..(NumGroups - 1) : pass_df[j + 1] = GroupRecord(j)

C1_Witness ==
    /\ pc = "done"
    /\ WellFormed
    /\ Len(events) = 6
    /\ times[1] < times[2]
    /\ Len(pass_df) = 2

\* C2: fetch_tle never raises to its caller, whatever the HTTP GET gives
C2_FetchNeverRaises == ~(pc = "crashed" /\ ran = {})

\* C3: a GET that fails with a network error or a non-success status makes
\* fetch_tle report the error and return the null triple, no exception escapes,
\* and a successful fetch never returns the null triple
C3_FailureGivesNullTriple ==
    /\ http \in RequestExceptions =>
        /\ tle = NullTriple
        /\ error_reported
        /\ pc # "crashed"
        /\ raised = "none"
    /\ (http = "ok" /\ tle # Unset) =>
        /\ tle # NullTriple
        /\ \A i \in 1..3 : tle[i] # None

C3_Witness == http = "HTTPError" /\ pc = "stopped" /\ tle = NullTriple

\* C4: a render whose triple has a null or empty member stops at the check, and
\* the model, the live position and calculate_passes run only with three
\* non-empty strings
Incomplete(t) == \E i \in 1..3 : t[i] = None \/ t[i] = <<>>

C4_StopOnIncompleteTriple ==
    /\ (tle # Unset /\ Incomplete(tle)) => (ran = {} /\ pc \in {"check", "stopped"})
    /\ (ran # {} \/ pc \in {"live", "find", "predict", "show", "done"}) =>
        (tle # Unset /\ ~Incomplete(tle))

C4_Witness == pc = "stopped" /\ http = "ok" /\ tle[1] # <<>> /\ tle[2] = <<>>

\* C5: a call of fetch_tle less than 3600 seconds after the call that last
\* populated the cache issues no HTTP request and returns that call's triple, the
\* null triple of a failed fetch included
C5_CachedWithinTtl ==
    [][(pc = "fetch" /\ pc' # "fetch" /\ last_fetch.valid /\ now - last_fetch.at < TTL) =>
            (http' = "none" /\ tle' = last_fetch.value /\ pc' = "check")]_vars

C5_Witness ==
    /\ pc = "check"
    /\ http = "none"
    /\ tle = NullTriple
    /\ last_fetch.valid
    /\ now > last_fetch.at

\* C6: when the length is no multiple of 3 the trailing len mod 3 events give no
\* record, nothing is indexed out of range and the records of the full triples
\* before them are as they would be without the tail
C6_TrailingPartialDropped ==
    (PassesCalled /\ Len(events) % 3 # 0) =>
        /\ raised = "none"
        /\ pc # "crashed"
        /\ pass_df = GroupRecords(0)

C6_Witness ==
    /\ pc = "done"
    /\ events = <<0, 1, 2, 0, 1>>
    /\ Len(pass_df) = 1

\* C7: a group whose codes are not exactly (0,1,2) gives no record and no error,
\* the groups after it are still examined, and every record comes from a group
\* whose codes are exactly (0,1,2)
C7_MalformedGroupSkipped ==
    PassesCalled =>
        /\ raised = "none"
        /\ Len(pass_df) = Cardinality(ValidGroups)
        /\ \A j \in ValidGroups : pass_df[Rank(j)] = GroupRecord(j)

C7_Witness ==
    /\ pc = "done"
    /\ events = <<1, 2, 0, 0, 1, 2>>
    /\ Len(pass_df) = 1

\* C8: with no qualifying triple the result is the empty sequence, no error is
\* raised and the section shows the "no visible passes" message, not a table
C8_NoPassesIsEmpty ==
    (PassesCalled /\ ValidGroups = {}) =>
        /\ raised = "none"
        /\ pc # "crashed"
        /\ pass_df = <<>>
        /\ pc = "done" => shown = "info"

C8_Witness ==
    /\ pc = "done"
    /\ Len(events) = 6
    /\ ValidGroups = {}
    /\ shown = "info"

\* C9: the records are in the order of their groups, none twice, so that rise
\* times never decrease along the result
C9_ChronologicalOrder ==
    PassesCalled =>
        /\ pass_df = GroupRecords(0)
        /\ \A a \in 1..Len(pass_df) : \A b \in a..Len(pass_df) :
               pass_df[a].rise <= pass_df[b].rise

C9_Witness ==
    /\ pc = "done"
    /\ Len(pass_df) = 2
    /\ pass_df[1].rise < pass_df[2].rise

\* C10: on any sequence the propagator can return, every rise immediately
\* followed by a culminate and a set gives exactly one record
C10_NoCompletePassLost ==
    (PassesCalled /\ Cyclic) => Len(pass_df) = Cardinality(CompletePasses)

====
